---------------------------- MODULE Spec2Model ----------------------------
(* firmware-bruteforce: two brute-force programs that try every key of a   *)
(* keyspace on the first chunk of a file (repeating 4-byte XOR in          *)
(* filesystem-xor-bruteforce.rs, RC4 with a 1..4 byte key in               *)
(* rc4_finder.rs) and scan each result for Squashfs / CramFS / JFFS2       *)
(* magic numbers.                                                          *)
(*                                                                         *)
(* Bytes are the integers 0..255.  A u32 or u64 value is held as its       *)
(* little-endian base-256 digits (five digits, values below 2^40), since   *)
(* the keys run up to 0xFFFFFFFF and the key counts up to 2^32, beyond the *)
(* integers TLC computes with.                                             *)
EXTENDS Integers, Sequences, FiniteSets

VARIABLES
    cfg,        \* what the process is started with: program, arguments, file
    main,       \* the main thread: its position and its locals
    workers,    \* the worker threads, by spawn index
    results,    \* the Vec behind Arc<Mutex<..>> that the workers extend
    mutex,      \* who holds the Mutex: "free", "worker" or "main"
    scan_of,    \* matches of the transformed buffer, for every key followed
    hist,       \* history: keys tested, lock acquisitions, order of the merges
    fn          \* the transform / scanner call under test: input, key, output

vars == << cfg, main, workers, results, mutex, scan_of, hist, fn >>

runVars == << cfg, main, workers, results, mutex, scan_of, hist >>

-----------------------------------------------------------------------------
(* Bounds of the model *)

\* longest buffer of the exhaustive scanner inputs
MaxScanLen == 5
\* longest tail after the magic in the long scanner inputs
MaxTail == 2
\* longest buffer given to the transforms
MaxBufLen == 3
\* largest thread count given on the command line
MaxThreads == 3
\* largest key length given on the command line
MaxKeyLengthArg == 5

-----------------------------------------------------------------------------
(* Program constants *)

\* keys between two progress lines of a worker
XOR_PROGRESS_EVERY == 1000000
RC4_PROGRESS_EVERY == 100000
SQUASHFS_MAGIC_LE == 1936814952
SQUASHFS_MAGIC_BE == 1752396147
CRAMFS_MAGIC == 684539205
CRAMFS_MAGIC_BE == 1161678120
\* a JFFS2 magic that collides with the low half of a 32-bit magic
JFFS2_MAGIC_BITMASK_low16_of_squashfs == SQUASHFS_MAGIC_LE % 65536
JFFS2_MAGIC_BITMASK == 6533
JFFS2_MAGIC_BITMASK_BE == 34073

-----------------------------------------------------------------------------
(* Bytes and fixed-width integers *)

Byte == 0..255

RECURSIVE XorBits(_, _, _)
XorBits(a, b, n) ==
    IF n = 0 THEN 0
    ELSE (((a % 2) + (b % 2)) % 2) + 2 * XorBits(a \div 2, b \div 2, n - 1)

\* u8 ^ u8
BitXor(a, b) == XorBits(a, b, 8)

\* u8::wrapping_add
wrapping_add(a, b) == (a + b) % 256

\* the little-endian digits of a non-negative integer below 2^31
Digits(n) ==
    << n % 256, (n \div 256) % 256, (n \div 65536) % 256, (n \div 16777216) % 256, 0 >>

\* u32::from_le_bytes([b0, b1, b2, b3])
u32_from_le_bytes(b0, b1, b2, b3) == << b0, b1, b2, b3, 0 >>

\* u16::from_le_bytes([b0, b1])
u16_from_le_bytes(b0, b1) == b0 + 256 * b1

\* the key bytes taken most significant first
to_be_bytes(key) == << key[4], key[3], key[2], key[1] >>

\* u32::to_le_bytes
to_le_bytes(key) == << key[1], key[2], key[3], key[4] >>

-----------------------------------------------------------------------------
(* Arithmetic on digit strings (u32 and u64 values) *)

U32_MAX == << 255, 255, 255, 255, 0 >>

\* a + b
UAdd(a, b) ==
    LET s1 == a[1] + b[1]
        s2 == a[2] + b[2] + (s1 \div 256)
        s3 == a[3] + b[3] + (s2 \div 256)
        s4 == a[4] + b[4] + (s3 \div 256)
        s5 == a[5] + b[5] + (s4 \div 256)
    IN  << s1 % 256, s2 % 256, s3 % 256, s4 % 256, s5 % 256 >>

\* a - b, for a >= b
USub(a, b) ==
    LET d1 == a[1] - b[1]
        d2 == a[2] - b[2] - (IF d1 < 0 THEN 1 ELSE 0)
        d3 == a[3] - b[3] - (IF d2 < 0 THEN 1 ELSE 0)
        d4 == a[4] - b[4] - (IF d3 < 0 THEN 1 ELSE 0)
        d5 == a[5] - b[5] - (IF d4 < 0 THEN 1 ELSE 0)
    IN  << d1 % 256, d2 % 256, d3 % 256, d4 % 256, d5 % 256 >>

\* a * m, for an integer m
UMul(a, m) ==
    LET p1 == a[1] * m
        p2 == a[2] * m + (p1 \div 256)
        p3 == a[3] * m + (p2 \div 256)
        p4 == a[4] * m + (p3 \div 256)
        p5 == a[5] * m + (p4 \div 256)
    IN  << p1 % 256, p2 % 256, p3 % 256, p4 % 256, p5 % 256 >>

\* a / m (integer division), for an integer m > 0
UDiv(a, m) ==
    LET c5 == a[5]
        c4 == (c5 % m) * 256 + a[4]
        c3 == (c4 % m) * 256 + a[3]
        c2 == (c3 % m) * 256 + a[2]
        c1 == (c2 % m) * 256 + a[1]
    IN  << c1 \div m, c2 \div m, c3 \div m, c4 \div m, c5 \div m >>

\* a % m as an integer, for an integer m > 0
UMod(a, m) ==
    LET c5 == a[5]
        c4 == (c5 % m) * 256 + a[4]
        c3 == (c4 % m) * 256 + a[3]
        c2 == (c3 % m) * 256 + a[2]
        c1 == (c2 % m) * 256 + a[1]
    IN  c1 % m

\* a < b
ULess(a, b) ==
    \E n \in 1..5 : a[n] < b[n] /\ \A m \in (n + 1)..5 : a[m] = b[m]

ULeq(a, b) == a = b \/ ULess(a, b)

\* `as u32`
AsU32(a) == << a[1], a[2], a[3], a[4], 0 >>

\* the value does not fit a u32
OverflowsU32(a) == a[5] # 0

-----------------------------------------------------------------------------
(* FilesystemMatch and the scanner *)

FilesystemMatch(offset, fs_type, endian) ==
    [offset |-> offset, fs_type |-> fs_type, endian |-> endian]

\* the if / else-if chain on magic32: at most one push
Magic32Matches(data, i) ==
    LET magic32 == u32_from_le_bytes(data[i + 1], data[i + 2], data[i + 3], data[i + 4])
    IN  IF magic32 = Digits(SQUASHFS_MAGIC_LE)
          THEN << FilesystemMatch(i, "Squashfs", "Little Endian") >>
        ELSE IF magic32 = Digits(SQUASHFS_MAGIC_BE)
          THEN << FilesystemMatch(i, "Squashfs", "Big Endian") >>
        ELSE IF magic32 = Digits(CRAMFS_MAGIC)
          THEN << FilesystemMatch(i, "CramFS", "Little Endian") >>
        ELSE IF magic32 = Digits(CRAMFS_MAGIC_BE)
          THEN << FilesystemMatch(i, "CramFS", "Big Endian") >>
        ELSE << >>

\* the if / else-if chain on magic16: at most one push
Magic16Matches(data, i) ==
    LET magic16 == u16_from_le_bytes(data[i + 1], data[i + 2])
    IN  IF magic16 = JFFS2_MAGIC_BITMASK
          THEN << FilesystemMatch(i, "JFFS2", "Little Endian") >>
        ELSE IF magic16 = JFFS2_MAGIC_BITMASK_BE
          THEN << FilesystemMatch(i, "JFFS2", "Big Endian") >>
        ELSE << >>

\* the pushes of `for i in lo..=hi`, in the order of the loop (the range is
\* split in halves to keep the evaluation shallow)
RECURSIVE ScanLoop(_, _, _)
ScanLoop(data, lo, hi) ==
    IF lo > hi THEN << >>
    ELSE IF lo = hi THEN Magic32Matches(data, lo) \o Magic16Matches(data, lo)
    ELSE LET mid == (lo + hi) \div 2
         IN  ScanLoop(data, lo, mid) \o ScanLoop(data, mid + 1, hi)

\* the scan loop written `0..(data.len() - 4)`: the last window is skipped
find_filesystem_magic_exclusive_range(data) ==
    IF Len(data) < 4 THEN << >>
    ELSE ScanLoop(data, 0, Len(data) - 5)

find_filesystem_magic(data) ==
    IF Len(data) < 4 THEN << >> ELSE ScanLoop(data, 0, Len(data) - 4)

-----------------------------------------------------------------------------
(* The XOR transform *)

\* the transform written with wrapping_add in place of ^
xor_data_wrapping_add(data, key) ==
    LET key_bytes == to_le_bytes(key)
    IN  [i \in 1..Len(data) |-> wrapping_add(data[i], key_bytes[((i - 1) % 4) + 1])]

xor_data(data, key) ==
    LET key_bytes == to_le_bytes(key)
    IN  [i \in 1..Len(data) |-> BitXor(data[i], key_bytes[((i - 1) % 4) + 1])]

-----------------------------------------------------------------------------
(* RC4: s is the permutation as a function on 0..255, i and j the cursors *)

Swap(s, a, b) == [s EXCEPT ![a] = s[b], ![b] = s[a]]

\* one pass of the key schedule loop body, at index i
KeyScheduleStep(st, i, key) ==
    LET j2 == wrapping_add(wrapping_add(st.j, st.s[i]), key[(i % Len(key)) + 1])
    IN  [s |-> Swap(st.s, i, j2), j |-> j2]

\* the key schedule loop `for i in 0..256` over the indices lo..hi-1, in order
\* (split in halves to keep the evaluation shallow)
RECURSIVE KeySchedule(_, _, _, _)
KeySchedule(st, lo, hi, key) ==
    IF hi - lo = 1 THEN KeyScheduleStep(st, lo, key)
    ELSE LET mid == (lo + hi) \div 2
             half == KeySchedule(st, lo, mid, key)
         IN  IF half.j \in Byte THEN KeySchedule(half, mid, hi, key) ELSE half

RC4_new(key) ==
    [s |-> KeySchedule([s |-> [x \in 0..255 |-> x], j |-> 0], 0, 256, key).s,
     i |-> 0, j |-> 0]

\* the loop `for &byte in data` of RC4::decrypt, from position n on
RECURSIVE DecryptLoop(_, _, _, _)
DecryptLoop(rc4, data, n, output) ==
    IF n > Len(data) THEN output
    ELSE LET i2 == wrapping_add(rc4.i, 1)
             j2 == wrapping_add(rc4.j, rc4.s[i2])
             s2 == Swap(rc4.s, i2, j2)
             k  == s2[wrapping_add(s2[i2], s2[j2])]
         IN  DecryptLoop([s |-> s2, i |-> i2, j |-> j2], data, n + 1,
                         Append(output, BitXor(data[n], k)))

RC4_decrypt(rc4, data) == DecryptLoop(rc4, data, 1, << >>)

rc4_decrypt(data, key) == RC4_decrypt(RC4_new(key), data)

-----------------------------------------------------------------------------
(* Inputs of the scanner and transform checks *)

RECURSIVE SeqsUpTo(_, _)
SeqsUpTo(S, n) ==
    IF n = 0 THEN { << >> }
    ELSE LET shorter == SeqsUpTo(S, n - 1)
         IN  shorter \cup { Append(q, x) : q \in { r \in shorter : Len(r) = n - 1 }, x \in S }

Fill(b, n) == [i \in 1..n |-> b]

\* bytes of the Squashfs and JFFS2 magics, and a neutral byte
ScanBytes == { 104, 115, 113, 133, 25, 0 }

\* the six magics as they lie in a buffer
MagicPatterns ==
    { << 104, 115, 113, 115 >>, << 115, 113, 115, 104 >>,
      << 69, 61, 205, 40 >>, << 40, 205, 61, 69 >>,
      << 133, 25 >>, << 25, 133 >> }

LongBuffers ==
    { Fill(f, 100) \o p \o t :
        f \in { 0, 255, 115 }, p \in MagicPatterns, t \in SeqsUpTo({ 0, 133, 25 }, MaxTail) }

ScanBuffers == SeqsUpTo(ScanBytes, MaxScanLen) \cup LongBuffers

OccursAt(buf, i, p) ==
    /\ i + Len(p) <= Len(buf)
    /\ \A n \in 1..Len(p) : buf[i + n] = p[n]

\* the (offset, pattern) pairs at which a magic lies in buf
Occurrences(buf) ==
    { << i, p >> \in (0..Len(buf)) \X MagicPatterns : OccursAt(buf, i, p) }

TransformBytes == { 0, 115, 255 }

DEADBEEF == << 239, 190, 173, 222, 0 >>

XorKeys == { Digits(0), Digits(16909060), DEADBEEF, << 255, 255, 255, 255, 0 >> }

Rc4Keys ==
    { << 1 >>, << 0 >>, << 1, 2 >>, << 1, 2, 3 >>, << 1, 2, 3, 4 >>, << 255, 255, 255, 255 >> }

-----------------------------------------------------------------------------
(* The brute-force run: configuration and partition of the keyspace *)

Min(a, b) == IF a < b THEN a ELSE b
Max(a, b) == IF a > b THEN a ELSE b

Threads == 0..(MaxThreads - 1)

\* a numeric command-line argument: absent, unparsable, or a number
NoArg == [given |-> FALSE, parses |-> TRUE, value |-> 0]
BadArg == [given |-> TRUE, parses |-> FALSE, value |-> 0]
NumArg(v) == [given |-> TRUE, parses |-> TRUE, value |-> v]

\* the key length with the lower clamp forgotten
ParseKeyLength_no_max(arg) == IF arg.given THEN Min(arg.value, 4) ELSE 4

\* args[2].parse::<usize>()?.min(4).max(1), 4 when absent
ParseKeyLength(arg) == IF arg.given THEN Max(Min(arg.value, 4), 1) ELSE 4

\* match key_length { 1 => 0xFF, 2 => 0xFFFF, 3 => 0xFFFFFF, 4 => .., _ => .. }
max_key_value(key_length) ==
    CASE key_length = 1 -> Digits(255)
      [] key_length = 2 -> Digits(65535)
      [] key_length = 3 -> Digits(16777215)
      [] key_length = 4 -> U32_MAX
      [] OTHER -> U32_MAX

MaxKey(prog, key_length) ==
    IF prog = "xor" THEN U32_MAX ELSE max_key_value(key_length)

\* xor: (0xFFFFFFFF_u64 + 1) / num_threads as u64
\* rc4: ((max_key_value as u64 + 1) / num_threads as u64) as u32
keys_per_thread(prog, max, num_threads) ==
    IF prog = "xor" THEN UDiv(UAdd(U32_MAX, Digits(1)), num_threads)
    ELSE AsU32(UDiv(UAdd(max, Digits(1)), num_threads))

start_key(kpt, i) == AsU32(UMul(kpt, i))

end_key(kpt, max, i, num_threads) ==
    IF i = num_threads - 1 THEN max ELSE AsU32(UMul(kpt, i + 1))

\* match key_length { 1 => vec![key_val as u8], ... }
key_bytes(key_val, key_length) ==
    CASE key_length = 1 -> << key_val[1] >>
      [] key_length = 2 -> << key_val[1], key_val[2] >>
      [] key_length = 3 -> << key_val[1], key_val[2], key_val[3] >>
      [] key_length = 4 -> << key_val[1], key_val[2], key_val[3], key_val[4] >>
      [] OTHER -> << key_val[1], key_val[2], key_val[3], key_val[4] >>

\* what a result entry holds as its key: the u32 (xor), the key bytes (rc4)
KeyMaterial(prog, key, key_length) ==
    IF prog = "xor" THEN key ELSE key_bytes(key, key_length)

\* one pass of the worker loop body: transform, scan
KeyScan(prog, data, key, key_length) ==
    IF prog = "xor" THEN find_filesystem_magic(xor_data(data, key))
    ELSE find_filesystem_magic(rc4_decrypt(data, key_bytes(key, key_length)))

\* local_results.push((key, fs_match)) for every match of one key
Entries(prog, key, key_length, matches) ==
    [n \in 1..Len(matches) |->
        [key |-> KeyMaterial(prog, key, key_length), fs_match |-> matches[n]]]

ProgressEvery(prog) == IF prog = "xor" THEN XOR_PROGRESS_EVERY ELSE RC4_PROGRESS_EVERY

\* count % N == 0 && count > 0, count being the position of key in the range
ProgressDue(prog, start, key) ==
    LET count == USub(key, start)
    IN  UMod(count, ProgressEvery(prog)) = 0 /\ count # Digits(0)

\* results_lock.extend(local_results) replaced by an assignment
Extend_overwrite(sink, batch) == batch

\* results_lock.extend(local_results)
Extend(sink, batch) == sink \o batch

-----------------------------------------------------------------------------
(* The keys the model follows.  A worker visits every key of its range; the *)
(* model follows the loop on the keys below (the ends of the keyspace, both *)
(* sides of every range boundary, the first key with a progress line, and   *)
(* the keys that undo the crafted files) and passes over the keys between   *)
(* them.  The result list of the model is the real one restricted to these  *)
(* keys.                                                                    *)

\* 0xDEADA76A = 0xDEADBEEF ^ 0x00001985 turns the first two bytes of the
\* crafted xor files into the JFFS2 magic; so do 0x0000A76A and 0x6000A76A
DEADA76A == << 106, 167, 173, 222, 0 >>

NotableKeys(prog) ==
    IF prog = "xor"
      THEN { DEADBEEF, DEADA76A, << 106, 167, 0, 0, 0 >>, << 106, 167, 0, 96, 0 >> }
    ELSE { Digits(1), Digits(257), Digits(65793), Digits(16843009) }

FollowedKeys(prog, max, kpt, num_threads) ==
    LET starts == { start_key(kpt, i) : i \in 0..(num_threads - 1) }
        cand == { Digits(0), max, USub(max, Digits(1)) }
                  \cup starts
                  \cup { USub(k, Digits(1)) : k \in starts \ { Digits(0) } }
                  \cup { UAdd(k, Digits(ProgressEvery(prog))) : k \in starts }
                  \cup NotableKeys(prog)
    IN  { k \in cand : ULeq(k, max) }

\* the first followed key in from..end-1, or end
NextFollowed(sample, from, end) ==
    LET c == { k \in sample : ULeq(from, k) /\ ULess(k, end) }
    IN  IF c = { } THEN end ELSE CHOOSE k \in c : \A o \in c : ULeq(k, o)

-----------------------------------------------------------------------------
(* Files *)

\* 16 bytes with 73 71 73 68 at offset 4 and the JFFS2 magic 85 19 at offset 10
Plain16Jffs2 == << 0, 0, 0, 0, 115, 113, 115, 104, 0, 0, 133, 25, 0, 0, 0, 0 >>

\* 16 zero bytes but 73 71 73 68 at offset 4, xored with EF BE AD DE
XorFileA ==
    << 239, 190, 173, 222, 156, 207, 222, 182, 239, 190, 173, 222, 239, 190, 173, 222 >>

\* Plain16Jffs2 xored with EF BE AD DE
XorFileB ==
    << 239, 190, 173, 222, 156, 207, 222, 182, 239, 190, 40, 199, 239, 190, 173, 222 >>

XorFiles == { XorFileA, XorFileB }

Rc4Files == { rc4_decrypt(Plain16Jffs2, << 1 >>) }

ThreadArgs == { BadArg } \cup { NumArg(v) : v \in 0..MaxThreads }

KeyLengthArgs == { NoArg, BadArg } \cup { NumArg(v) : v \in 0..MaxKeyLengthArg }

-----------------------------------------------------------------------------
(* Initial state *)

FnIdle ==
    [op |-> "none", input |-> << >>, key |-> << >>, mid |-> << >>,
     output |-> << >>, stage |-> 0]

RunStart ==
    /\ main = [pc |-> "args", key_length |-> 0, num_threads |-> 0,
               max_key_value |-> << >>, announced |-> << >>,
               keys_per_thread |-> << >>, i |-> 0, joined |-> 0,
               keys_tested |-> << >>, has_reported |-> FALSE, reported |-> << >>,
               abort |-> "none"]
    /\ workers = [w \in Threads |->
                    [pc |-> "unspawned", start_key |-> << >>, end_key |-> << >>,
                     cursor |-> << >>, local_results |-> << >>, key_length |-> 0]]
    /\ results = << >>
    /\ mutex = "free"
    /\ scan_of = << >>
    /\ hist = [sample |-> { }, tested |-> << >>, locks |-> [w \in Threads |-> 0],
               merged |-> << >>, batch |-> [w \in Threads |-> << >>]]

Init ==
    /\ cfg \in { [prog |-> "xor", key_length_arg |-> NoArg, num_threads_arg |-> t, data |-> d] :
                    t \in ThreadArgs, d \in XorFiles }
          \cup { [prog |-> "rc4", key_length_arg |-> a, num_threads_arg |-> t, data |-> d] :
                    a \in KeyLengthArgs, t \in ThreadArgs, d \in Rc4Files }
    /\ RunStart
    /\ fn = FnIdle

\* the state of the run while a single function is applied
RunIdle ==
    /\ cfg = [prog |-> "none", key_length_arg |-> NoArg, num_threads_arg |-> NoArg,
              data |-> << >>]
    /\ RunStart

-----------------------------------------------------------------------------
(* The main thread *)

\* the process is running: main has neither returned nor panicked
Alive == main.pc \notin { "done", "aborted", "exit_error" }

Panic(reason) == main' = [main EXCEPT !.pc = "aborted", !.abort = reason]

\* an argument fails to parse: `?` returns the error from main
ParseArgsFail ==
    /\ main.pc = "args"
    /\ \/ (cfg.prog = "rc4" /\ ~cfg.key_length_arg.parses)
       \/ ~cfg.num_threads_arg.parses
    /\ main' = [main EXCEPT !.pc = "exit_error", !.abort = "parse_error"]
    /\ UNCHANGED << cfg, workers, results, mutex, scan_of, hist, fn >>

ParseArgs ==
    /\ main.pc = "args"
    /\ cfg.prog = "rc4" => cfg.key_length_arg.parses
    /\ cfg.num_threads_arg.parses
    /\ main' = [main EXCEPT
                  !.pc = "banner",
                  !.key_length = IF cfg.prog = "rc4" THEN ParseKeyLength(cfg.key_length_arg)
                                 ELSE 4,
                  !.num_threads = cfg.num_threads_arg.value]
    /\ UNCHANGED << cfg, workers, results, mutex, scan_of, hist, fn >>

\* println! panics when the write to stdout fails
MainPrintFails ==
    /\ main.pc \in { "banner", "spawn", "report", "stats" }
    /\ Panic("print_failed")
    /\ UNCHANGED << cfg, workers, results, mutex, scan_of, hist, fn >>

\* the banner; rc4 prints max_key_value + 1, computed in u32
Banner ==
    /\ main.pc = "banner"
    /\ LET max == MaxKey(cfg.prog, main.key_length)
           sum == UAdd(max, Digits(1))
       IN  IF cfg.prog = "rc4" /\ OverflowsU32(sum)
           THEN \* overflow checks on: panic; off: the sum wraps
                \/ Panic("add_overflow")
                \/ main' = [main EXCEPT !.pc = "partition", !.max_key_value = max,
                                        !.announced = AsU32(sum)]
           ELSE main' = [main EXCEPT !.pc = "partition", !.max_key_value = max,
                                     !.announced = IF cfg.prog = "rc4" THEN sum ELSE << >>]
    /\ UNCHANGED << cfg, workers, results, mutex, scan_of, hist, fn >>

\* keys_per_thread with num_threads = 0: division by zero panics
PartitionByZero ==
    /\ main.pc = "partition"
    /\ main.num_threads = 0
    /\ Panic("divide_by_zero")
    /\ UNCHANGED << cfg, workers, results, mutex, scan_of, hist, fn >>

Partition ==
    /\ main.pc = "partition"
    /\ main.num_threads > 0
    /\ LET kpt == keys_per_thread(cfg.prog, main.max_key_value, main.num_threads)
           sample == FollowedKeys(cfg.prog, main.max_key_value, kpt, main.num_threads)
       IN  /\ main' = [main EXCEPT !.pc = "spawn", !.keys_per_thread = kpt, !.i = 0]
           /\ hist' = [hist EXCEPT !.sample = sample, !.tested = [k \in sample |-> 0]]
           /\ scan_of' = [k \in sample |-> KeyScan(cfg.prog, cfg.data, k, main.key_length)]
    /\ UNCHANGED << cfg, workers, results, mutex, fn >>

\* one pass of `for i in 0..num_threads`: thread::spawn of worker i
Spawn ==
    /\ main.pc = "spawn"
    /\ LET i == main.i
           start == start_key(main.keys_per_thread, i)
           end == end_key(main.keys_per_thread, main.max_key_value, i, main.num_threads)
       IN  /\ workers' = [workers EXCEPT ![i] =
                            [pc |-> "loop", start_key |-> start, end_key |-> end,
                             cursor |-> NextFollowed(hist.sample, start, end),
                             local_results |-> << >>, key_length |-> main.key_length]]
           /\ main' = [main EXCEPT !.i = i + 1,
                                   !.pc = IF i + 1 = main.num_threads THEN "join" ELSE "spawn"]
    /\ UNCHANGED << cfg, results, mutex, scan_of, hist, fn >>

\* handle.join() returns: the thread has ended, one way or the other
HandleFinished_no_wait(w) == TRUE

HandleFinished(w) == workers[w].pc \in { "done", "panicked" }

\* the join result taken for Ok whatever the thread did
JoinIsErr_ignored(w) == FALSE

\* handle.join() is Err when the thread panicked
JoinIsErr(w) == workers[w].pc = "panicked"

\* one pass of `for handle in handles`: handle.join().unwrap()
Join ==
    /\ main.pc = "join"
    /\ HandleFinished(main.joined)
    /\ ~JoinIsErr(main.joined)
    /\ main' = [main EXCEPT !.joined = @ + 1,
                            !.pc = IF main.joined + 1 = main.num_threads THEN "report"
                                   ELSE "join"]
    /\ UNCHANGED << cfg, workers, results, mutex, scan_of, hist, fn >>

JoinPanicked ==
    /\ main.pc = "join"
    /\ HandleFinished(main.joined)
    /\ JoinIsErr(main.joined)
    /\ Panic("worker_panicked")
    /\ UNCHANGED << cfg, workers, results, mutex, scan_of, hist, fn >>

\* results.lock().unwrap() and the printing of every entry
Report ==
    /\ main.pc = "report"
    /\ mutex = "free"
    /\ mutex' = "main"
    /\ main' = [main EXCEPT !.pc = "stats", !.has_reported = TRUE, !.reported = results]
    /\ UNCHANGED << cfg, workers, results, scan_of, hist, fn >>

\* keys_tested = max + 1 as u64, and the keys/second line
Stats ==
    /\ main.pc = "stats"
    /\ main' = [main EXCEPT !.pc = "done",
                            !.keys_tested = UAdd(MaxKey(cfg.prog, main.key_length), Digits(1))]
    /\ UNCHANGED << cfg, workers, results, mutex, scan_of, hist, fn >>

-----------------------------------------------------------------------------
(* The worker threads *)

InLoop(w) ==
    /\ Alive
    /\ workers[w].pc = "loop"
    /\ workers[w].cursor # workers[w].end_key

AtLoopEnd(w) ==
    /\ Alive
    /\ workers[w].pc = "loop"
    /\ workers[w].cursor = workers[w].end_key

\* one pass of `for (count, key) in (start_key..end_key).enumerate()`
WorkerIter(w) ==
    /\ InLoop(w)
    /\ LET key == workers[w].cursor
           found == Entries(cfg.prog, key, workers[w].key_length, scan_of[key])
       IN  /\ workers' = [workers EXCEPT
                            ![w].local_results = @ \o found,
                            ![w].cursor = NextFollowed(hist.sample, UAdd(key, Digits(1)),
                                                       workers[w].end_key)]
           /\ hist' = [hist EXCEPT !.tested[key] = @ + 1]
    /\ UNCHANGED << cfg, main, results, mutex, scan_of, fn >>

\* the progress println! panics: the thread ends, its local results are lost
WorkerPrintFails(w) ==
    /\ InLoop(w)
    /\ ProgressDue(cfg.prog, workers[w].start_key, workers[w].cursor)
    /\ workers' = [workers EXCEPT ![w].pc = "panicked"]
    /\ UNCHANGED << cfg, main, results, mutex, scan_of, hist, fn >>

\* `if !local_results.is_empty()` is false: the thread returns
WorkerReturnEmpty(w) ==
    /\ AtLoopEnd(w)
    /\ workers[w].local_results = << >>
    /\ workers' = [workers EXCEPT ![w].pc = "done"]
    /\ UNCHANGED << cfg, main, results, mutex, scan_of, hist, fn >>

\* results.lock().unwrap()
WorkerLock(w) ==
    /\ AtLoopEnd(w)
    /\ workers[w].local_results # << >>
    /\ mutex = "free"
    /\ mutex' = "worker"
    /\ workers' = [workers EXCEPT ![w].pc = "locked"]
    /\ hist' = [hist EXCEPT !.locks[w] = @ + 1]
    /\ UNCHANGED << cfg, main, results, scan_of, fn >>

\* results_lock.extend(local_results); the guard is dropped, the thread returns
WorkerExtend(w) ==
    /\ Alive
    /\ workers[w].pc = "locked"
    /\ results' = Extend(results, workers[w].local_results)
    /\ mutex' = "free"
    /\ workers' = [workers EXCEPT ![w].pc = "done", ![w].local_results = << >>]
    /\ hist' = [hist EXCEPT !.merged = Append(@, w),
                            !.batch[w] = workers[w].local_results]
    /\ UNCHANGED << cfg, main, scan_of, fn >>

worker_thread(w) ==
    \/ WorkerIter(w)
    \/ WorkerPrintFails(w)
    \/ WorkerReturnEmpty(w)
    \/ WorkerLock(w)
    \/ WorkerExtend(w)

-----------------------------------------------------------------------------
(* The run *)

Next ==
    \/ ParseArgsFail
    \/ ParseArgs
    \/ MainPrintFails
    \/ Banner
    \/ PartitionByZero
    \/ Partition
    \/ Spawn
    \/ Join
    \/ JoinPanicked
    \/ Report
    \/ Stats
    \/ \E w \in Threads : worker_thread(w)

Spec == Init /\ [][Next]_vars

-----------------------------------------------------------------------------
(* The scanner applied to one buffer *)

ScanInit ==
    /\ RunIdle
    /\ fn \in [op : { "scan" }, input : ScanBuffers, key : { << >> },
            mid : { << >> }, output : { << >> }, stage : { 0 }]

Scan ==
    /\ fn.op = "scan"
    /\ fn.stage = 0
    /\ fn' = [fn EXCEPT !.output = find_filesystem_magic(fn.input), !.stage = 1]
    /\ UNCHANGED runVars

ScanNext == Scan

SpecScan == ScanInit /\ [][ScanNext]_vars

-----------------------------------------------------------------------------
(* A transform applied twice with the same key *)

TransformInit ==
    /\ RunIdle
    /\ \/ fn \in [op : { "xor" }, input : SeqsUpTo(TransformBytes, MaxBufLen), key : XorKeys,
                  mid : { << >> }, output : { << >> }, stage : { 0 }]
       \/ fn \in [op : { "rc4" }, input : SeqsUpTo(TransformBytes, MaxBufLen), key : Rc4Keys,
                  mid : { << >> }, output : { << >> }, stage : { 0 }]

ApplyXor ==
    /\ fn.op = "xor"
    /\ fn.stage < 2
    /\ LET arg == IF fn.stage = 0 THEN fn.input ELSE fn.mid
           out == xor_data(arg, fn.key)
       IN  fn' = [fn EXCEPT !.mid = IF fn.stage = 0 THEN out ELSE @,
                            !.output = out, !.stage = @ + 1]
    /\ UNCHANGED runVars

ApplyRc4 ==
    /\ fn.op = "rc4"
    /\ fn.stage < 2
    /\ LET arg == IF fn.stage = 0 THEN fn.input ELSE fn.mid
           out == rc4_decrypt(arg, fn.key)
       IN  fn' = [fn EXCEPT !.mid = IF fn.stage = 0 THEN out ELSE @,
                            !.output = out, !.stage = @ + 1]
    /\ UNCHANGED runVars

TransformNext == ApplyXor \/ ApplyRc4

SpecTransform == TransformInit /\ [][TransformNext]_vars

-----------------------------------------------------------------------------
(* Claims about the run (under Spec) *)

Spawned == { w \in Threads : workers[w].pc # "unspawned" }

\* every worker was spawned and has returned
AllWorkersDone ==
    /\ main.pc \in { "join", "report", "stats", "done" }
    /\ \A w \in 0..(main.num_threads - 1) : workers[w].pc = "done"

\* C1 as stated: when all workers have returned, every key of [0, max_key]
\* (max_key included) has been tested by exactly one worker.
C1_AsStated ==
    AllWorkersDone => \A k \in hist.sample : hist.tested[k] = 1

\* the buffer of C3: 16 bytes, and bytes 4..7 are 73 71 73 68 ^ EF BE AD DE
Crafted(data) ==
    /\ Len(data) = 16
    /\ SubSeq(data, 5, 8) = << 156, 207, 222, 182 >>

\* C3 as stated: the finished xor run on the crafted buffer reports exactly
\* one entry: key 0xDEADBEEF, Squashfs, Little Endian, offset 4.
C3_AsStated ==
    (cfg.prog = "xor" /\ Crafted(cfg.data) /\ main.pc = "done")
        => main.reported =
             << [key |-> DEADBEEF, fs_match |-> FilesystemMatch(4, "Squashfs", "Little Endian")] >>

\* C3 amended: the xor run on the crafted buffer reports exactly one entry
\* for key 0xDEADBEEF at offset 4, and it is Squashfs, Big Endian; entries of
\* other keys and offsets may stand beside it.
C3_Amended ==
    (cfg.prog = "xor" /\ Crafted(cfg.data) /\ main.has_reported)
        => LET at == { n \in 1..Len(main.reported) :
                         /\ main.reported[n].key = DEADBEEF
                         /\ main.reported[n].fs_match.offset = 4 }
           IN  /\ Cardinality(at) = 1
               /\ \A n \in at :
                     main.reported[n].fs_match = FilesystemMatch(4, "Squashfs", "Big Endian")

C3_Witness ==
    /\ cfg.prog = "xor"
    /\ Crafted(cfg.data)
    /\ main.pc = "done"
    /\ main.num_threads = MaxThreads
    /\ \E n \in 1..Len(main.reported) : main.reported[n].key # DEADBEEF
    /\ \E n \in 1..Len(main.reported) :
          main.reported[n] =
            [key |-> DEADBEEF, fs_match |-> FilesystemMatch(4, "Squashfs", "Big Endian")]

\* the value of the key of a result entry (4 digits for xor, 1..4 key bytes for rc4)
KeyValue(k) == [n \in 1..5 |-> IF n <= Len(k) /\ n <= 4 THEN k[n] ELSE 0]

\* the entries of the followed keys of worker w's range from key `from` on,
\* in ascending key order
RECURSIVE RangeEntries(_, _)
RangeEntries(w, from) ==
    LET k == NextFollowed(hist.sample, from, workers[w].end_key)
    IN  IF k = workers[w].end_key THEN << >>
        ELSE Entries(cfg.prog, k, workers[w].key_length, scan_of[k])
               \o RangeEntries(w, UAdd(k, Digits(1)))

RECURSIVE ConcatBatches(_)
ConcatBatches(order) ==
    IF order = << >> THEN << >>
    ELSE hist.batch[order[1]] \o ConcatBatches(Tail(order))

\* C4: a worker takes the lock at most once, only after its whole range, and
\* appends its whole local batch then; the sink is at all times the batches
\* of the workers that have merged, each once and contiguous, and when all
\* workers have returned it holds every worker's entries, each batch in
\* ascending key order.
C4_MergeOnce ==
    /\ \A w \in Threads : hist.locks[w] <= 1
    /\ \A w \in Spawned :
          /\ workers[w].pc = "locked" => workers[w].cursor = workers[w].end_key
          /\ workers[w].pc = "loop" => hist.locks[w] = 0
          /\ workers[w].pc \in { "loop", "locked" } =>
                \A n \in 1..Len(hist.merged) : hist.merged[n] # w
    /\ \A a, b \in 1..Len(hist.merged) : hist.merged[a] = hist.merged[b] => a = b
    /\ results = ConcatBatches(hist.merged)
    /\ AllWorkersDone =>
          \A w \in 0..(main.num_threads - 1) :
            /\ hist.batch[w] = RangeEntries(w, workers[w].start_key)
            /\ hist.batch[w] # << >> => \E n \in 1..Len(hist.merged) : hist.merged[n] = w
            /\ \A a, b \in 1..Len(hist.batch[w]) :
                  a < b => ULeq(KeyValue(hist.batch[w][a].key), KeyValue(hist.batch[w][b].key))

C4_Witness ==
    /\ AllWorkersDone
    /\ Len(hist.merged) = MaxThreads
    /\ hist.merged[1] > hist.merged[2]
    /\ Len(results) > Len(hist.batch[hist.merged[1]])

\* C5: when main has read the sink (and printed the results, and later the
\* throughput line), every worker has returned and been joined, and nothing
\* is appended to the sink after that read.
C5_ReadAfterJoin ==
    (main.has_reported \/ main.keys_tested # << >>) =>
        /\ main.joined = main.num_threads
        /\ \A w \in 0..(main.num_threads - 1) : workers[w].pc = "done"
        /\ main.reported = results

C5_Witness ==
    /\ main.pc = "done"
    /\ main.num_threads = MaxThreads
    /\ Len(hist.merged) >= 2
    /\ main.reported = results

\* C6: once a worker has panicked, main never reports results nor the
\* summary and never returns normally: the join of that worker panics.
C6_PanicIsFatal ==
    (\E w \in Threads : workers[w].pc = "panicked") =>
        /\ ~main.has_reported
        /\ main.keys_tested = << >>
        /\ main.pc \notin { "report", "stats", "done" }

C6_Witness ==
    /\ main.abort = "worker_panicked"
    /\ workers[main.joined].pc = "panicked"
    /\ main.joined > 0
    /\ results # << >>

OutOfRangeKeyLength ==
    /\ cfg.prog = "rc4"
    /\ cfg.key_length_arg.given
    /\ cfg.key_length_arg.parses
    /\ cfg.key_length_arg.value \notin 1..4

\* C7 as stated: with a key length outside [1, 4] no worker is spawned and no
\* key is tested.
C7_AsStated ==
    OutOfRangeKeyLength =>
        /\ Spawned = { }
        /\ \A k \in hist.sample : hist.tested[k] = 0

\* C7 amended: a key length outside [1, 4] is not rejected but clamped into
\* [1, 4] (below 1 gives 1, above 4 gives 4) when the arguments are parsed,
\* before any worker is spawned: every worker runs with that key length, every
\* key has that many bytes; only an unparsable key length ends the process
\* before any work.
C7_Amended ==
    cfg.prog = "rc4" =>
        /\ main.pc \notin { "args", "exit_error" } =>
              LET a == cfg.key_length_arg
              IN  main.key_length =
                    IF ~a.given THEN 4
                    ELSE IF a.value < 1 THEN 1
                    ELSE IF a.value > 4 THEN 4
                    ELSE a.value
        /\ \A w \in Spawned :
              workers[w].key_length \in 1..4 /\ workers[w].key_length = main.key_length
        /\ \A n \in 1..Len(results) : Len(results[n].key) = main.key_length
        /\ ~cfg.key_length_arg.parses =>
              Spawned = { } /\ main.pc \in { "args", "exit_error" }

C7_Witness ==
    /\ OutOfRangeKeyLength
    /\ cfg.key_length_arg.value = 0
    /\ main.pc = "done"
    /\ main.key_length = 1
    /\ main.reported # << >>
    /\ main.reported[1].key = << 1 >>

\* 2^32 for xor, 256^key_length for rc4
ExpectedKeyCount(prog, key_length) ==
    [n \in 1..5 |-> IF n = (IF prog = "xor" THEN 4 ELSE key_length) + 1 THEN 1 ELSE 0]

\* C9 as stated: every key count computed and reported is max_key + 1, with
\* no overflow of the type the sum is computed in.
C9_AsStated ==
    /\ main.abort # "add_overflow"
    /\ main.announced # << >> =>
          main.announced = ExpectedKeyCount(cfg.prog, main.key_length)
    /\ main.keys_tested # << >> =>
          main.keys_tested = ExpectedKeyCount(cfg.prog, main.key_length)

-----------------------------------------------------------------------------
(* Claims about the scanner (under SpecScan) *)

Scanned == fn.op = "scan" /\ fn.stage = 1

OnlyHsqsAt100(buf) == Occurrences(buf) = { << 100, << 104, 115, 113, 115 >> >> }

\* C2 as stated: a buffer whose only magic is 68 73 71 73 at offset 100 scans
\* to exactly one match, offset 100, Squashfs, Big Endian.
C2_AsStated ==
    (Scanned /\ OnlyHsqsAt100(fn.input))
        => fn.output = << FilesystemMatch(100, "Squashfs", "Big Endian") >>

\* C2 amended: the same buffer scans to exactly one match, offset 100,
\* Squashfs, Little Endian (68 73 71 73 read little-endian is 0x73717368).
C2_Amended ==
    (Scanned /\ OnlyHsqsAt100(fn.input))
        => fn.output = << FilesystemMatch(100, "Squashfs", "Little Endian") >>

C2_Witness ==
    /\ Scanned
    /\ OnlyHsqsAt100(fn.input)
    /\ Len(fn.output) = 1

\* C10: the matches of one scan have strictly increasing offsets (so at most
\* one match per offset: no window passes a 32-bit and a 16-bit comparison),
\* every offset lies in [0, len - 4], and a buffer shorter than 4 bytes
\* yields no match.
C10_OneMatchPerOffset ==
    Scanned =>
        /\ \A n \in 1..(Len(fn.output) - 1) : fn.output[n].offset < fn.output[n + 1].offset
        /\ \A n \in 1..Len(fn.output) : fn.output[n].offset \in 0..(Len(fn.input) - 4)
        /\ \A i \in 0..(Len(fn.input) - 4) :
              Magic32Matches(fn.input, i) = << >> \/ Magic16Matches(fn.input, i) = << >>
        /\ (Len(fn.input) < 4 => fn.output = << >>)

C10_Witness ==
    /\ Scanned
    /\ Len(fn.output) = 2
    /\ fn.output[1] = FilesystemMatch(0, "JFFS2", "Little Endian")
    /\ fn.output[2] = FilesystemMatch(1, "JFFS2", "Big Endian")

-----------------------------------------------------------------------------
(* Claims about the transforms (under SpecTransform) *)

\* C8: a transform applied twice with the same key gives the buffer back,
\* and every application keeps the length; for xor_data with any 32-bit key
\* and for rc4_decrypt (a fresh RC4 state per call) with keys of 1..4 bytes,
\* the empty buffer included.
C8_Involution ==
    fn.op \in { "xor", "rc4" } =>
        /\ (fn.stage >= 1 => Len(fn.output) = Len(fn.input) /\ Len(fn.mid) = Len(fn.input))
        /\ (fn.stage = 2 => fn.output = fn.input)

C8_Witness ==
    /\ fn.op = "rc4"
    /\ fn.stage = 2
    /\ Len(fn.key) = 4
    /\ Len(fn.input) = MaxBufLen
    /\ fn.mid # fn.input
    /\ fn.output = fn.input

=============================================================================
